---- MODULE Spec2Model ----
(***************************************************************************)
(* FractalMC (src/fractalai/fractalmc.py): the planning controller of      *)
(* Fractal Monte Carlo.  The model covers the adaptive resource control    *)
(* (update_parameters), one planning cycle (run_swarm and its stop         *)
(* condition), the origin-id bookkeeping (init_ids, clone), the action     *)
(* aggregation (weight_actions, estimate_distributions) and the episode    *)
(* loop (run_agent, _skip_initial_frames, recover_game).                   *)
(*                                                                         *)
(* The base class Swarm and the class DynamicTree (fractalai/swarm.py) are *)
(* not among the sources; the parts of them that FractalMC calls (reset,   *)
(* init_swarm, step_walkers, clone_condition, clone, the data store; the   *)
(* tree's reset, append_leaf and get_branch) are modelled from spec.md 4.1 *)
(* and 4.3.                                                                *)
(*                                                                         *)
(* Real numbers: balance is kept as a reduced fraction num/den, and the    *)
(* ceilings of the code are computed exactly on fractions.                 *)
(***************************************************************************)
EXTENDS Integers, Sequences, FiniteSets, TLC

VARIABLES
    \* configuration, fixed by __init__
    max_walkers,        \* self.max_walkers
    time_horizon,       \* self.time_horizon
    max_samples,        \* self.max_samples: None or Some(cap)
    min_horizon,        \* self.min_horizon
    reward_limit,       \* self.reward_limit: None or Some(limit)
    n_actions,          \* self._env.n_actions
    skip_initial_frames,\* self.skip_initial_frames
    _update_parameters, \* self._update_parameters
    \* adaptive parameters
    n_walkers,          \* self.n_walkers
    _max_samples_step,  \* self._max_samples_step
    balance,            \* self.balance, a fraction [num, den]
    \* the swarm of the current planning cycle
    _i_simulation,      \* self._i_simulation
    _n_samples_done,    \* self._n_samples_done
    walkers_id,         \* self.walkers_id
    init_ids,           \* self.init_ids
    rewards,            \* self.rewards
    times,              \* self.times
    _end_cond,          \* self._end_cond
    _clone_idx,         \* self._clone_idx: None or Some(vector)
    _will_clone,        \* self._will_clone
    data,               \* self.data: first-level node id -> action
    _game_status,       \* self._game_status
    _save_steps,        \* self._save_steps
    phases,             \* history: the calls of the last iteration of run_swarm
    \* the episode of run_agent
    tree,               \* self.tree: node id -> [parent, state, action, dt]
    state,              \* the state of the environment: the steps it has made
    i_step,             \* i_step of run_agent
    _agent_reward,      \* self._agent_reward
    end,                \* end of run_agent
    error,              \* the exception that ended run_agent, "" if none
    calls,              \* history: the append_leaf calls of the episode
    resets,             \* history: the tree.reset calls of the episode
    \* control
    pc,                 \* position of the running handler
    caller,             \* the handler that called run_swarm
    result,             \* what the last finished handler returned
    pre                 \* history: the parameters the last handler started from

vars == <<max_walkers, time_horizon, max_samples, min_horizon, reward_limit,
          n_actions,
          n_walkers, _max_samples_step, balance,
          _i_simulation, _n_samples_done, walkers_id, init_ids, rewards, times,
          _end_cond, _clone_idx, _will_clone, data, _game_status, _save_steps,
          skip_initial_frames, _update_parameters, phases,
          tree, state, i_step, _agent_reward, end, error, calls, resets,
          pc, caller, result, pre>>

config == <<max_walkers, time_horizon, max_samples, min_horizon, reward_limit,
           n_actions, skip_initial_frames, _update_parameters>>

agent == <<tree, state, i_step, _agent_reward, end, error, calls, resets>>

swarm == <<_i_simulation, _n_samples_done, walkers_id, init_ids, rewards, times,
           _end_cond, _clone_idx, _will_clone, data, _game_status>>

-----------------------------------------------------------------------------
(* Bounds of the model.                                                    *)

MaxWalkers == 3     \* largest configured n_walkers
MaxHorizon == 2     \* largest configured time_horizon
MaxMinHorizon == 2  \* largest configured min_horizon
MaxCap == 6         \* largest configured max_samples_step
MaxTime == 2        \* largest elapsed time of a walker drawn for update_parameters
MaxBudget == 8      \* the sampling budget is followed up to this value
MaxSaved == 2       \* _save_steps is followed up to this length

-----------------------------------------------------------------------------
(* Values.                                                                 *)

None == <<>>
Some(v) == <<v>>
Get(o) == o[1]

Min(a, b) == IF a <= b THEN a ELSE b
Max(a, b) == IF a >= b THEN a ELSE b

RECURSIVE GCD(_, _)
GCD(a, b) == IF b = 0 THEN a ELSE GCD(b, a % b)

\* the fraction num/den in lowest terms (den > 0)
Frac(num, den) ==
    LET g == GCD(num, den)
    IN  [num |-> num \div g, den |-> den \div g]

One == Frac(1, 1)

\* np.ceil of a / b for a >= 0, b > 0
Ceil(a, b) == (a + b - 1) \div b

\* np.clip(x, lo, hi)  ==  minimum(maximum(x, lo), hi); hi = None is no upper limit
Clip(x, lo, hi) == IF hi = None THEN Max(x, lo) ELSE Min(Max(x, lo), Get(hi))

RECURSIVE Sum(_)
Sum(s) == IF s = <<>> THEN 0 ELSE Head(s) + Sum(Tail(s))

-----------------------------------------------------------------------------
(* Adaptive resource control.                                              *)

\* 1e-7 as a fraction
Epsilon == [num |-> 1, den |-> 10000000]

\* np.maximum(1e-7, self.balance)
FloorBalance(b) == IF b.num * Epsilon.den < b.den THEN Epsilon ELSE b

\* _update_n_samples with ceil replaced by int(x) + 1
UpdateNSamplesFloorPlusOne(budget, b, cap, n, minh) ==
    LET e == FloorBalance(b)
        limit_clean == Clip(((budget * e.den) \div e.num) + 1, 2, cap)
    IN  Max(limit_clean, n * minh)

\* _update_n_samples without the n_walkers * min_horizon floor
UpdateNSamplesNoFloor(budget, b, cap, n, minh) ==
    LET e == FloorBalance(b)
    IN  Clip(Ceil(budget * e.den, e.num), 2, cap)

\* _update_n_samples without the upper limit of the clip
UpdateNSamplesNoUpper(budget, b, cap, n, minh) ==
    LET e == FloorBalance(b)
    IN  Max(Max(Ceil(budget * e.den, e.num), 2), n * minh)

\* _update_n_samples: the new self._max_samples_step
UpdateNSamples(budget, b, cap, n, minh) ==
    LET e == FloorBalance(b)
        limit_clean == Clip(Ceil(budget * e.den, e.num), 2, cap)
    IN  Max(limit_clean, n * minh)

\* _update_n_walkers without the lower limit of the clip
UpdateNWalkersNoMin(n, b, maxw) == Min(Ceil(n * b.num, b.den), maxw)

\* _update_n_walkers without the upper limit of the clip
UpdateNWalkersNoMax(n, b, maxw) == Max(Ceil(n * b.num, b.den), 2)

\* _update_n_walkers: the new self.n_walkers
UpdateNWalkers(n, b, maxw) == Clip(Ceil(n * b.num, b.den), 2, Some(maxw))

\* _update_balance: times.mean() / time_horizon
UpdateBalance(t, th) == Frac(Sum(t), Len(t) * th)

\* the last k entries of a sequence
LastN(s, k) == IF Len(s) <= k THEN s ELSE SubSeq(s, Len(s) - k + 1, Len(s))

\* update_parameters: saves the samples done, recomputes balance from the
\* elapsed times of the swarm, and adapts either the population or the budget.
\* The model keeps the last MaxSaved entries of _save_steps and follows the
\* budget up to MaxBudget.
update_parameters ==
    LET b == UpdateBalance(times, time_horizon)
    IN  /\ _save_steps' = LastN(Append(_save_steps, _n_samples_done), MaxSaved)
        /\ balance' = b
        /\ IF b.num >= b.den
           THEN IF n_walkers = max_walkers
                THEN /\ _max_samples_step' =
                            UpdateNSamples(_max_samples_step, b, max_samples,
                                           n_walkers, min_horizon)
                     /\ n_walkers' = n_walkers
                ELSE /\ n_walkers' = UpdateNWalkers(n_walkers, b, max_walkers)
                     /\ _max_samples_step' = _max_samples_step
           ELSE IF max_samples = Some(_max_samples_step)
                THEN /\ n_walkers' = UpdateNWalkers(n_walkers, b, max_walkers)
                     /\ _max_samples_step' = _max_samples_step
                ELSE /\ _max_samples_step' =
                            UpdateNSamples(_max_samples_step, b, max_samples,
                                           n_walkers, min_horizon)
                     /\ n_walkers' = n_walkers
        /\ _max_samples_step' <= MaxBudget
        /\ pre' = [op |-> "update_parameters", n_walkers |-> n_walkers,
                   budget |-> _max_samples_step]

-----------------------------------------------------------------------------
(* The trajectory tree (DynamicTree of fractalai/swarm.py, after spec.md   *)
(* 3 and 4.3): node id -> [parent, state, action, dt].                     *)

\* the parent of the root: run_agent appends node 0 with parent 0 - 1
RootPredecessor == 0 - 1

\* tree.reset(): no node is left
EmptyTree == <<>>

\* the error append_leaf fails with, "" when it succeeds
AppendError(t, id, parent) ==
    IF id \in DOMAIN t THEN "DuplicateNodeError"
    ELSE IF parent # RootPredecessor /\ parent \notin DOMAIN t THEN "DanglingParentError"
    ELSE ""

\* tree.append_leaf(id, parent_id = parent, state = s, action = a, dt = dt), succeeding
append_leaf(t, id, parent, s, a, dt) ==
    [x \in DOMAIN t \cup {id} |->
        IF x = id THEN [parent |-> parent, state |-> s, action |-> a, dt |-> dt]
        ELSE t[x]]

RECURSIVE Branch(_, _)
\* the (state, action, dt) of the nodes from the root to node id, by parent links
Branch(t, id) ==
    LET node == <<t[id].state, t[id].action, t[id].dt>>
    IN  IF t[id].parent \in DOMAIN t
        THEN Append(Branch(t, t[id].parent), node)
        ELSE <<node>>

\* tree.get_branch(id)
get_branch(t, id) ==
    IF id \in DOMAIN t THEN [error |-> "", branch |-> Branch(t, id)]
    ELSE [error |-> "UnknownNodeError", branch |-> <<>>]

-----------------------------------------------------------------------------
(* Construction.                                                           *)

Zeros(n) == [i \in 1..n |-> 0]

\* __init__: _max_samples_step = min(max_samples_step or 1e10, n_walkers * time_horizon)
InitialBudget(cap, n, th) == IF cap = None THEN n * th ELSE Min(Get(cap), n * th)

\* the state after FractalMC.__init__ with the given arguments
Constructed(n, th, cap, minh, rl, na) ==
    /\ n_actions = na
    /\ max_walkers = n
    /\ time_horizon = th
    /\ max_samples = cap
    /\ min_horizon = minh
    /\ reward_limit = rl
    /\ n_walkers = n
    /\ _max_samples_step = InitialBudget(cap, n, th)
    /\ balance = One
    /\ _i_simulation = 0
    /\ _n_samples_done = 0
    /\ walkers_id = Zeros(n)
    /\ init_ids = Zeros(n)
    /\ rewards = Zeros(n)
    /\ times = Zeros(n)
    /\ _end_cond = [i \in 1..n |-> FALSE]
    /\ _clone_idx = None
    /\ _will_clone = None
    /\ data = [id \in {0} |-> 0]
    /\ _game_status = ""
    /\ _save_steps = <<>>
    /\ phases = <<>>
    /\ tree = EmptyTree
    /\ state = 0
    /\ i_step = 0
    /\ _agent_reward = 0
    /\ end = FALSE
    /\ error = ""
    /\ calls = <<>>
    /\ resets = 0
    /\ pc = "idle"
    /\ result = None
    /\ pre = [op |-> "init", n_walkers |-> n, budget |-> InitialBudget(cap, n, th)]

\* the arguments skip_initial_frames and update_parameters of __init__
Configured(skip, upd) ==
    /\ skip_initial_frames = skip
    /\ _update_parameters = upd

-----------------------------------------------------------------------------
(* The resource controller alone: update_parameters after planning cycles  *)
(* that may leave any elapsed times.                                       *)

Caps == {None} \cup {Some(c) : c \in 2..MaxCap}

InitParams ==
    \E n \in 2..MaxWalkers, th \in 1..MaxHorizon, cap \in Caps,
       minh \in 1..MaxMinHorizon :
        /\ Constructed(n, th, cap, minh, None, 2)
        /\ Configured(0, FALSE)
        /\ caller = "none"

\* the elapsed times a cycle of n walkers can leave, up to the order of the
\* walkers (update_parameters reads their mean only)
TimesVectors(n) ==
    {t \in [1..n -> 0..MaxTime] : \A i \in 1..(n - 1) : t[i] <= t[i + 1]}

\* a planning cycle of the current population, seen by the elapsed times it leaves
ElapsedTimes ==
    /\ pc = "idle"
    /\ \E t \in TimesVectors(n_walkers) : times' = t
    /\ UNCHANGED <<config, n_walkers, _max_samples_step, balance, _i_simulation,
                   _n_samples_done, walkers_id, init_ids, rewards, _end_cond,
                   _clone_idx, _will_clone, data, _game_status, _save_steps,
                   phases, agent, pc, caller, result, pre>>

\* a call of update_parameters
CallUpdateParameters ==
    /\ pc = "idle"
    /\ update_parameters
    /\ UNCHANGED <<config, swarm, phases, agent, pc, caller, result>>

NextParams == ElapsedTimes \/ CallUpdateParameters

SpecParams == InitParams /\ [][NextParams]_vars

-----------------------------------------------------------------------------
(* One planning cycle: run_swarm.                                          *)

Actions == 0..(n_actions - 1)
RewardDeltas == {0, 1}

Walkers == 1..Len(rewards)

RECURSIVE MaxOf(_)
\* np.max of a non-empty vector
MaxOf(s) == IF Len(s) = 1 THEN s[1] ELSE Max(Head(s), MaxOf(Tail(s)))

\* stop_hard one iteration late
stop_hard_one_late == _n_samples_done > _max_samples_step + Len(rewards)

\* stop_hard with >= as the test
stop_hard_at_limit == _n_samples_done >= _max_samples_step

\* stop_condition: the three causes, the status it sets and what it returns
stop_hard == _n_samples_done > _max_samples_step
stop_score == IF reward_limit = None THEN FALSE ELSE MaxOf(rewards) >= Get(reward_limit)
stop_terminal == \A i \in Walkers : _end_cond[i]

\* the status with the score limit tested before the sample limit
GameStatusScoreFirst ==
    IF stop_score THEN "Score limit reached."
    ELSE IF stop_hard THEN "Sample limit reached."
    ELSE IF stop_terminal THEN "All the walkers died."
    ELSE "Playing..."

GameStatus ==
    IF stop_hard THEN "Sample limit reached."
    ELSE IF stop_score THEN "Score limit reached."
    ELSE IF stop_terminal THEN "All the walkers died."
    ELSE "Playing..."

stop_condition == stop_hard \/ stop_score \/ stop_terminal

\* self.reset() and init_swarm: every slot at the initial state, no reward, no
\* elapsed time, and init_ids = zeros(n_walkers)
init_swarm ==
    /\ _i_simulation' = 0
    /\ _n_samples_done' = 0
    /\ walkers_id' = Zeros(n_walkers)
    /\ init_ids' = Zeros(n_walkers)
    /\ rewards' = Zeros(n_walkers)
    /\ times' = Zeros(n_walkers)
    /\ _end_cond' = [i \in 1..n_walkers |-> FALSE]
    /\ _clone_idx' = None
    /\ _will_clone' = None
    /\ data' = [id \in {0} |-> 0]
    /\ phases' = <<>>

\* the id of the node that step_walkers creates for walker i in this iteration
NewId(i) == _i_simulation * Len(rewards) + i

RECURSIVE CloneInPlaceFrom(_, _, _, _)
\* the clone of the walkers from k on, one after the other, on the vector itself
CloneInPlaceFrom(will, idx, ids, k) ==
    IF k > Len(ids) THEN ids
    ELSE CloneInPlaceFrom(will, idx,
                          [ids EXCEPT ![k] = IF will[k] THEN ids[idx[k]] ELSE ids[k]],
                          k + 1)

\* clone applied walker by walker, each reading what the earlier ones wrote
CloneInitIdsInPlace(will, idx, ids, wids) == CloneInPlaceFrom(will, idx, ids, 1)

\* clone with the walker ids of the companions in place of their origin ids
CloneInitIdsFromWalkers(will, idx, ids, wids) ==
    [i \in DOMAIN ids |-> IF will[i] THEN wids[idx[i]] ELSE ids[i]]

\* clone, line 92: np.where(self._will_clone, self.init_ids[self._clone_idx], self.init_ids)
\* (wids: the walker ids, which the line does not read)
CloneInitIds(will, idx, ids, wids) ==
    [i \in DOMAIN ids |-> IF will[i] THEN ids[idx[i]] ELSE ids[i]]

\* FractalMC.clone after Swarm.clone: nothing to do when clone_condition has
\* not run (self._clone_idx is None), else line 92
clone(cidx, cwill, ids, wids) ==
    IF cidx = None THEN ids
    ELSE CloneInitIds(Get(cwill), Get(cidx), ids, wids)

\* self.init_actions: self.data.get_actions(self.init_ids)
init_actions == [i \in DOMAIN init_ids |-> data[init_ids[i]]]

\* the clone phase in every iteration after the first one
ClonesAfterFirst(i) == i > 0

\* run_swarm, lines 125 and 128: iteration i (from 0) computes clone_condition
\* before step_walkers and applies clone after it
Clones(i) == i > 1

\* the calls of iteration i of the loop of run_swarm, in their order
IterationCalls(i) ==
    IF Clones(i) THEN <<"clone_condition", "step_walkers", "clone">>
    ELSE IF i = 0 THEN <<"step_walkers", "init_ids = walkers_id">>
    ELSE <<"step_walkers">>

\* One iteration of the loop of run_swarm with stop_condition() false:
\* clone_condition (after the second iteration), step_walkers, then clone or,
\* in the first iteration, init_ids = walkers_id.copy().
\*   idx, will: the companions and the decisions clone_condition draws;
\*   acts, rs, es: action, reward and terminal flag of each walker's step.
Iteration(idx, will, acts, rs, es) ==
    LET W == Walkers
        cloning == Clones(_i_simulation)
        live == {i \in W : ~_end_cond[i]}
        \* step_walkers: every live walker is advanced by one step
        s_ids == [i \in W |-> IF i \in live THEN NewId(i) ELSE walkers_id[i]]
        s_rewards == [i \in W |-> IF i \in live THEN rewards[i] + rs[i] ELSE rewards[i]]
        s_times == [i \in W |-> IF i \in live THEN times[i] + 1 ELSE times[i]]
        s_end == [i \in W |-> IF i \in live THEN es[i] ELSE _end_cond[i]]
        \* the store records the action of every first-level node
        s_data == IF _i_simulation = 0
                  THEN [id \in DOMAIN data \cup {NewId(i) : i \in live} |->
                          IF id \in DOMAIN data THEN data[id]
                          ELSE acts[CHOOSE i \in live : NewId(i) = id]]
                  ELSE data
        \* Swarm.clone: a walker that clones takes the record of its companion
        from(i) == IF cloning /\ will[i] THEN idx[i] ELSE i
        c_ids == [i \in W |-> s_ids[from(i)]]
        \* clone_condition stores its draws
        cidx == IF cloning THEN Some(idx) ELSE _clone_idx
        cwill == IF cloning THEN Some(will) ELSE _will_clone
        new_init == IF cloning THEN clone(cidx, cwill, init_ids, s_ids)
                    ELSE IF _i_simulation = 0 THEN s_ids
                    ELSE init_ids
    IN  /\ _clone_idx' = cidx
        /\ _will_clone' = cwill
        /\ _n_samples_done' = _n_samples_done + Cardinality(live)
        /\ walkers_id' = c_ids
        /\ rewards' = [i \in W |-> s_rewards[from(i)]]
        /\ times' = [i \in W |-> s_times[from(i)]]
        /\ _end_cond' = [i \in W |-> s_end[from(i)]]
        /\ init_ids' = new_init
        /\ data' = s_data
        /\ phases' = IterationCalls(_i_simulation)
        /\ _i_simulation' = _i_simulation + 1

\* what clone_condition may draw: a companion and a decision for every walker;
\* a dead walker always clones, from a live companion when there is one.
\* Before the third iteration clone_condition is not called (one empty draw).
CloneDraws ==
    IF Clones(_i_simulation)
    THEN {d \in [idx : [Walkers -> Walkers], will : [Walkers -> BOOLEAN]] :
            \A i \in Walkers :
                _end_cond[i] =>
                    /\ d.will[i]
                    /\ (\E j \in Walkers : ~_end_cond[j]) => ~_end_cond[d.idx[i]]}
    ELSE {[idx |-> [i \in Walkers |-> i], will |-> [i \in Walkers |-> FALSE]]}

\* what step_walkers may draw for each walker: a dead walker is not advanced.
\* The action of a step shows in the model only through the store, which the
\* controller reads for first-level nodes only: after the first iteration one
\* draw stands for all.
ActionDraws ==
    IF _i_simulation = 0 THEN [Walkers -> Actions] ELSE {[i \in Walkers |-> 0]}
RewardDraws == {f \in [Walkers -> RewardDeltas] : \A i \in Walkers : _end_cond[i] => f[i] = 0}
EndDraws == {f \in [Walkers -> BOOLEAN] : \A i \in Walkers : _end_cond[i] => f[i]}

\* the loop of run_swarm: stop_condition() is false and the body runs once
Evolve ==
    /\ pc = "swarm"
    /\ ~stop_condition
    /\ _game_status' = GameStatus
    /\ \E d \in CloneDraws, acts \in ActionDraws, rs \in RewardDraws, es \in EndDraws :
          Iteration(d.idx, d.will, acts, rs, es)
    /\ UNCHANGED <<config, n_walkers, _max_samples_step, balance, _save_steps,
                   agent, pc, result, pre, caller>>

-----------------------------------------------------------------------------
(* Action aggregation.                                                     *)

RECURSIVE BinCount(_, _)
\* np.bincount(xs, minlength = m) for values below m; entry a + 1 counts value a
BinCount(xs, m) ==
    IF xs = <<>> THEN [a \in 1..m |-> 0]
    ELSE LET rest == BinCount(Tail(xs), m)
         IN  [rest EXCEPT ![Head(xs) + 1] = @ + 1]

RECURSIVE ArgMaxFrom(_, _, _)
\* the index of the first maximum of s from position k on, best being the best before k
ArgMaxFrom(s, k, best) ==
    IF k > Len(s) THEN best
    ELSE ArgMaxFrom(s, k + 1, IF s[k] > s[best] THEN k ELSE best)

\* np.argmax taking the last of several maxima
ArgMaxLast(s) ==
    CHOOSE k \in DOMAIN s :
        /\ \A j \in DOMAIN s : s[j] <= s[k]
        /\ \A j \in DOMAIN s : j > k => s[j] < s[k]

\* np.argmax: the first of several maxima (positions from 1)
ArgMax(s) == ArgMaxFrom(s, 2, 1)

\* weight_actions, discrete model: np.argmax(np.bincount(init_actions, minlength = n_actions))
weight_actions == ArgMax(BinCount(init_actions, n_actions)) - 1

\* counts / self.n_walkers, the divisor of the continuous branch
ProbsOverNWalkers(counts, n) == [a \in DOMAIN counts |-> Frac(counts[a], n)]

\* estimate_distributions, discrete model: counts / counts.sum()
\* (n: self.n_walkers at that line, which the discrete branch does not read)
Probs(counts, n) == [a \in DOMAIN counts |-> Frac(counts[a], Sum(counts))]

RECURSIVE MaxRewardOf(_, _, _, _)
\* self.rewards[init_act == a].max() if there is such a walker, else 0
\* (found: whether a walker before position k has origin action a; m: their maximum)
MaxRewardOf(a, k, found, m) ==
    IF k > Len(rewards) THEN (IF found THEN m ELSE 0)
    ELSE IF init_actions[k] = a
         THEN MaxRewardOf(a, k + 1, TRUE, IF found THEN Max(m, rewards[k]) ELSE rewards[k])
         ELSE MaxRewardOf(a, k + 1, found, m)

\* get_expected_reward
get_expected_reward == [a \in 1..n_actions |-> MaxRewardOf(a - 1, 1, FALSE, 0)]

-----------------------------------------------------------------------------
(* estimate_distributions.                                                 *)

\* estimate_distributions is called on the constructed controller: run_swarm
\* starts with reset and init_swarm
EstimateStart ==
    /\ pc = "idle"
    /\ init_swarm
    /\ pre.op = "init"
    /\ pc' = "swarm"
    /\ caller' = "estimate_distributions"
    /\ result' = None
    /\ pre' = [op |-> "run_swarm", n_walkers |-> n_walkers, budget |-> _max_samples_step]
    /\ UNCHANGED <<config, n_walkers, _max_samples_step, balance, _game_status,
                   _save_steps, agent>>

\* stop_condition() is true: run_swarm returns, update_parameters runs, and the
\* probabilities and the expected rewards are returned
EstimateFinish ==
    /\ pc = "swarm"
    /\ caller = "estimate_distributions"
    /\ stop_condition
    /\ _game_status' = GameStatus
    /\ update_parameters
    /\ result' = Some([probs |-> Probs(BinCount(init_actions, n_actions), n_walkers'),
                       rewards |-> get_expected_reward])
    /\ pc' = "idle"
    /\ UNCHANGED <<config, _i_simulation, _n_samples_done, walkers_id, init_ids,
                   rewards, times, _end_cond, _clone_idx, _will_clone, data, caller,
                   phases, agent>>

-----------------------------------------------------------------------------
(* The controller.                                                         *)

SwarmCap == 3       \* largest configured max_samples_step of the controller
SwarmSizes == {2, 3}
RewardLimits == {None, Some(1), Some(2)}

Init ==
    /\ \E n \in SwarmSizes, th \in 1..MaxHorizon, cap \in 2..SwarmCap,
          rl \in RewardLimits :
          Constructed(n, th, Some(cap), 1, rl, 2)
    /\ Configured(0, FALSE)
    /\ caller = "none"

Next == EstimateStart \/ Evolve \/ EstimateFinish

Spec == Init /\ [][Next]_vars

\* run_swarm is a loop of the one thread of the program: a cycle that can make
\* its next turn, or return, does so
InitFair ==
    /\ \E n \in SwarmSizes, cap \in 2..SwarmCap, rl \in {None, Some(1)} :
          Constructed(n, 1, Some(cap), 1, rl, 2)
    /\ Configured(0, FALSE)
    /\ caller = "none"

FairSpec == InitFair /\ [][Next]_vars /\ WF_vars(Evolve) /\ WF_vars(EstimateFinish)

-----------------------------------------------------------------------------
(* The action aggregation alone: weight_actions on the swarm that a       *)
(* planning cycle leaves when every walker died in its first iteration     *)
(* (init_ids = walkers_id, any first-level actions).                       *)

MaxVoters == 4      \* largest population of the aggregation
MaxActions == 3     \* largest n_actions of the aggregation

InitVote ==
    \E n \in 2..MaxVoters, na \in 2..MaxActions :
        /\ max_walkers = n /\ n_walkers = n
        /\ time_horizon = 1 /\ min_horizon = 1
        /\ max_samples = None /\ reward_limit = None
        /\ n_actions = na
        /\ _max_samples_step = InitialBudget(None, n, 1)
        /\ balance = One
        /\ _i_simulation = 1
        /\ _n_samples_done = n
        /\ walkers_id = [i \in 1..n |-> i]
        /\ init_ids = [i \in 1..n |-> i]
        /\ rewards = Zeros(n)
        /\ times = [i \in 1..n |-> 1]
        /\ _end_cond = [i \in 1..n |-> TRUE]
        /\ _clone_idx = None
        /\ _will_clone = None
        /\ data \in [1..n -> 0..(na - 1)]
        /\ _game_status = "All the walkers died."
        /\ _save_steps = <<>>
        /\ Configured(0, FALSE)
        /\ phases = <<"step_walkers", "init_ids = walkers_id">>
        /\ tree = EmptyTree /\ state = 0 /\ i_step = 0 /\ _agent_reward = 0
        /\ end = FALSE /\ error = "" /\ calls = <<>> /\ resets = 0
        /\ pc = "idle"
        /\ caller = "none"
        /\ result = None
        /\ pre = [op |-> "run_swarm", n_walkers |-> n, budget |-> n]

\* a call of weight_actions
CallWeightActions ==
    /\ pc = "idle"
    /\ result' = Some([action |-> weight_actions])
    /\ UNCHANGED <<config, n_walkers, _max_samples_step, balance, swarm,
                   _save_steps, phases, agent, pc, caller, pre>>

NextVote == CallWeightActions

SpecVote == InitVote /\ [][NextVote]_vars

-----------------------------------------------------------------------------
(* The episode: run_agent on the constructed controller, with an           *)
(* environment that may answer every step with any reward and any terminal *)
(* flag.                                                                   *)

MaxSkip == 1        \* largest configured skip_initial_frames
MaxSteps == 2       \* run_agent is followed up to this many planning cycles

EnvRewards == {0 - 1, 0, 1}
Infos == {None, Some(FALSE), Some(TRUE)}

\* info.get("terminal", _end)
Terminal(info, e) == IF info = None THEN e ELSE Get(info)

\* parent_id = i_step - 1 of the append_leaf calls
LeafParent(id) == id - 1

\* the call tree.append_leaf(id, parent_id = id - 1, state = s, action = a, dt = dt)
LeafCall(id, s, a, dt) ==
    [id |-> id, parent |-> LeafParent(id), state |-> s, action |-> a, dt |-> dt]

\* recover_game(index): index is None or Some(id)
recover_game(index) ==
    get_branch(tree, IF index = None THEN walkers_id[ArgMax(rewards)] ELSE Get(index))

\* the test of the loop with <= for <
LoopTestAtLimit ==
    IF end THEN "stop"
    ELSE IF reward_limit = None THEN "TypeError"
    ELSE IF _agent_reward <= Get(reward_limit) THEN "run"
    ELSE "stop"

\* line 296, not end and self._agent_reward < self.reward_limit: the loop
\* runs, stops, or the comparison of a number with None raises TypeError
LoopTest ==
    IF end THEN "stop"
    ELSE IF reward_limit = None THEN "TypeError"
    ELSE IF _agent_reward < Get(reward_limit) THEN "run"
    ELSE "stop"

\* a planning cycle that clears the tree
PlanTreeReset(t) == EmptyTree

\* run_swarm, lines 114-140: self.tree is not written
PlanTree(t) == t

\* run_agent is called: tree.reset(), and _skip_initial_frames resets the
\* environment and its counters
RunAgent ==
    /\ pc = "idle"
    /\ pre.op = "init"
    /\ tree' = EmptyTree
    /\ resets' = resets + 1
    /\ state' = 0
    /\ i_step' = 0
    /\ _agent_reward' = 0
    /\ end' = FALSE
    /\ error' = ""
    /\ calls' = <<>>
    /\ pc' = "skip"
    /\ caller' = "run_agent"
    /\ pre' = [pre EXCEPT !.op = "run_agent"]
    /\ UNCHANGED <<config, n_walkers, _max_samples_step, balance, swarm,
                   _save_steps, phases, result>>

\* one turn of the loop of _skip_initial_frames: a step of the environment
\* with action 0, recorded in the tree
SkipFrame ==
    /\ pc = "skip"
    /\ i_step < skip_initial_frames
    /\ ~end
    /\ \E r \in EnvRewards, e \in BOOLEAN, info \in Infos :
          LET id == i_step + 1
              err == AppendError(tree, id, LeafParent(id))
          IN  /\ i_step' = id
              /\ state' = state + 1
              /\ calls' = Append(calls, LeafCall(id, state + 1, 0, 1))
              /\ error' = err
              /\ IF err = ""
                 THEN /\ tree' = append_leaf(tree, id, LeafParent(id), state + 1, 0, 1)
                      /\ _agent_reward' = _agent_reward + r
                      /\ end' = Terminal(info, e)
                      /\ pc' = "skip"
                 ELSE /\ UNCHANGED <<tree, _agent_reward, end>>
                      /\ pc' = "raised"
    /\ UNCHANGED <<config, n_walkers, _max_samples_step, balance, swarm,
                   _save_steps, phases, resets, caller, result, pre>>

\* _skip_initial_frames returns; run_agent clears _save_steps and appends the
\* start node
StartNode ==
    /\ pc = "skip"
    /\ i_step >= skip_initial_frames \/ end
    /\ _save_steps' = <<>>
    /\ LET err == AppendError(tree, i_step, LeafParent(i_step))
       IN  /\ calls' = Append(calls, LeafCall(i_step, state, 0, 1))
           /\ error' = err
           /\ IF err = ""
              THEN /\ tree' = append_leaf(tree, i_step, LeafParent(i_step), state, 0, 1)
                   /\ pc' = "loop"
              ELSE /\ tree' = tree
                   /\ pc' = "raised"
    /\ UNCHANGED <<config, n_walkers, _max_samples_step, balance, swarm, phases,
                   state, i_step, _agent_reward, end, resets, caller, result, pre>>

\* the test of the loop passes: i_step += 1 and run_swarm starts with reset
\* and init_swarm
AgentPlan ==
    /\ pc = "loop"
    /\ LoopTest = "run"
    /\ i_step < MaxSteps
    /\ i_step' = i_step + 1
    /\ init_swarm
    /\ tree' = PlanTree(tree)
    /\ pc' = "swarm"
    /\ UNCHANGED <<config, n_walkers, _max_samples_step, balance, _game_status,
                   _save_steps, state, _agent_reward, end, error, calls, resets,
                   caller, result, pre>>

\* stop_condition() is true: run_swarm returns, weight_actions gives the
\* action, the environment makes the step, the step is recorded in the tree,
\* and update_parameters runs if it is enabled
AgentAct ==
    /\ pc = "swarm"
    /\ caller = "run_agent"
    /\ stop_condition
    /\ _game_status' = GameStatus
    /\ \E r \in EnvRewards, e \in BOOLEAN, info \in Infos :
          LET action == weight_actions
              err == AppendError(tree, i_step, LeafParent(i_step))
          IN  /\ state' = state + 1
              /\ calls' = Append(calls, LeafCall(i_step, state + 1, action, 1))
              /\ error' = err
              /\ IF err = ""
                 THEN /\ tree' = append_leaf(tree, i_step, LeafParent(i_step),
                                             state + 1, action, 1)
                      /\ _agent_reward' = _agent_reward + r
                      /\ end' = Terminal(info, e)
                      /\ IF _update_parameters
                         THEN update_parameters
                         ELSE UNCHANGED <<n_walkers, _max_samples_step, balance,
                                          _save_steps, pre>>
                      /\ pc' = "loop"
                 ELSE /\ UNCHANGED <<tree, _agent_reward, end, n_walkers,
                                     _max_samples_step, balance, _save_steps, pre>>
                      /\ pc' = "raised"
    /\ UNCHANGED <<config, _i_simulation, _n_samples_done, walkers_id, init_ids,
                   rewards, times, _end_cond, _clone_idx, _will_clone, data,
                   phases, i_step, resets, caller, result>>

\* the test of the loop fails, or raises: run_agent is over
AgentExit ==
    /\ pc = "loop"
    /\ LoopTest # "run"
    /\ error' = IF LoopTest = "stop" THEN "" ELSE LoopTest
    /\ pc' = IF LoopTest = "stop" THEN "done" ELSE "raised"
    /\ UNCHANGED <<config, n_walkers, _max_samples_step, balance, swarm,
                   _save_steps, phases, tree, state, i_step, _agent_reward, end,
                   calls, resets, caller, result, pre>>

AgentRewardLimits == {None, Some(0 - 1), Some(0), Some(1), Some(2)}
AgentHorizons == {1, 2}

InitAgent ==
    /\ \E th \in AgentHorizons, rl \in AgentRewardLimits :
          Constructed(2, th, Some(2), 1, rl, 2)
    /\ \E skip \in 0..MaxSkip, upd \in BOOLEAN : Configured(skip, upd)
    /\ caller = "none"

NextAgent ==
    \/ RunAgent \/ SkipFrame \/ StartNode \/ AgentPlan \/ Evolve \/ AgentAct
    \/ AgentExit

SpecAgent == InitAgent /\ [][NextAgent]_vars

-----------------------------------------------------------------------------
(* Properties of the resource controller (under SpecParams).               *)

\* the last call was update_parameters; pre holds the parameters it started from
Updated == pre.op = "update_parameters"

BalanceIsOne == balance.num = balance.den
BalanceAboveOne == balance.num > balance.den
BalanceBelowOne == balance.num < balance.den

\* C1 as stated: after update_parameters with balance == 1 the population size
\* and the sampling budget are what they were before the call.
C1_Unchanged ==
    (Updated /\ BalanceIsOne) =>
        /\ n_walkers = pre.n_walkers
        /\ _max_samples_step = pre.budget

\* C1 amended: after update_parameters with balance == 1 the population size is
\* unchanged, and the budget is unchanged unless the population is at its
\* maximum and the budget was below n_walkers * min_horizon, in which case the
\* budget is raised to n_walkers * min_horizon.
C1_UnchangedAboveFloor ==
    (Updated /\ BalanceIsOne) =>
        /\ n_walkers = pre.n_walkers
        /\ _max_samples_step =
              IF pre.n_walkers = max_walkers
              THEN Max(pre.budget, pre.n_walkers * min_horizon)
              ELSE pre.budget

C1_Witness ==
    /\ Updated /\ BalanceIsOne
    /\ pre.n_walkers = max_walkers
    /\ pre.budget >= pre.n_walkers * min_horizon
    /\ pre.budget > 2
    /\ _max_samples_step = pre.budget

\* C2 as stated: after update_parameters with balance > 1 and the population at
\* its maximum, the budget is strictly smaller than before and at least
\* n_walkers * min_horizon.
C2_StrictDecrease ==
    (Updated /\ BalanceAboveOne /\ pre.n_walkers = max_walkers) =>
        /\ _max_samples_step < pre.budget
        /\ _max_samples_step >= n_walkers * min_horizon

\* C2 amended: after update_parameters with balance > 1 and the population at
\* its maximum, the budget is at least n_walkers * min_horizon, is not larger
\* than before when it was already at least n_walkers * min_horizon, and is
\* strictly smaller than before whenever budget / balance <= budget - 1 and
\* budget > max(2, n_walkers * min_horizon).
C2_DecreaseToFloor ==
    (Updated /\ BalanceAboveOne /\ pre.n_walkers = max_walkers) =>
        /\ _max_samples_step >= n_walkers * min_horizon
        /\ (pre.budget >= n_walkers * min_horizon) =>
               _max_samples_step <= pre.budget
        /\ (/\ pre.budget * balance.den <= (pre.budget - 1) * balance.num
            /\ pre.budget > Max(2, n_walkers * min_horizon)) =>
               _max_samples_step < pre.budget

C2_Witness ==
    /\ Updated /\ BalanceAboveOne
    /\ pre.n_walkers = max_walkers
    /\ _max_samples_step < pre.budget
    /\ _max_samples_step = n_walkers * min_horizon

\* C3 as stated: after update_parameters with balance < 1 and the budget at its
\* configured cap, the population is strictly smaller than before and at least 2.
C3_StrictDecrease ==
    (Updated /\ BalanceBelowOne /\ max_samples = Some(pre.budget)) =>
        /\ n_walkers < pre.n_walkers
        /\ n_walkers >= 2

\* C3 amended: after update_parameters with balance < 1 and the budget at its
\* configured cap, the population is at least 2, not larger than before, and
\* strictly smaller than before whenever n_walkers * balance <= n_walkers - 1
\* and n_walkers > 2.
C3_DecreaseToTwo ==
    (Updated /\ BalanceBelowOne /\ max_samples = Some(pre.budget)) =>
        /\ n_walkers >= 2
        /\ n_walkers <= pre.n_walkers
        /\ (/\ pre.n_walkers * balance.num <= (pre.n_walkers - 1) * balance.den
            /\ pre.n_walkers > 2) =>
               n_walkers < pre.n_walkers

C3_Witness ==
    /\ Updated /\ BalanceBelowOne
    /\ max_samples = Some(pre.budget)
    /\ balance.num > 0
    /\ n_walkers < pre.n_walkers

\* C4: whenever a per-cycle cap is configured, the sampling budget is within
\* [2, cap].
C4_BudgetWithinCap ==
    (max_samples # None) =>
        /\ _max_samples_step >= 2
        /\ _max_samples_step <= Get(max_samples)

\* C5: the population size is within [2, max_walkers].
C5_WalkersInRange == n_walkers >= 2 /\ n_walkers <= max_walkers

C5_Witness ==
    /\ Updated
    /\ balance.num = 0
    /\ pre.n_walkers > 2
    /\ n_walkers = 2

-----------------------------------------------------------------------------
(* Properties of the planning cycle (under Spec).                          *)

\* estimate_distributions has returned: run_swarm stopped, update_parameters ran;
\* pre holds the population and the budget of the cycle
Stopped == pc = "idle" /\ pre.op = "update_parameters"

\* every iteration of the cycle consumed s = pre.n_walkers samples (an iteration
\* consumes at most that many, and the first one exactly that many)
ConstantConsumption == _n_samples_done = pre.n_walkers * _i_simulation

\* the cycle stopped, at constant consumption, with neither the score limit nor
\* extinction firing
C6_Case == Stopped /\ ConstantConsumption /\ ~stop_score /\ ~stop_terminal

\* C6 as stated: such a cycle of budget B and consumption s performs at most
\* ceil(B / s) iterations and ends with status "Sample limit reached.".
C6_AtMostCeil ==
    C6_Case =>
        /\ _i_simulation <= Ceil(pre.budget, pre.n_walkers)
        /\ _game_status = "Sample limit reached."

\* C6 amended: such a cycle of budget B and consumption s performs exactly
\* floor(B / s) + 1 iterations (the loop stops once the samples consumed exceed
\* B) and ends with status "Sample limit reached.".
C6_FloorPlusOne ==
    C6_Case =>
        /\ _i_simulation = (pre.budget \div pre.n_walkers) + 1
        /\ _game_status = "Sample limit reached."

C6_Witness ==
    /\ C6_Case
    /\ pre.budget = 2 /\ pre.n_walkers = 2
    /\ _i_simulation = 2
    /\ _game_status = "Sample limit reached."

\* C7 as stated: when stop_condition finds the best reward at or above a
\* configured reward_limit, the status is "Score limit reached.".
C7_ScoreStatus ==
    (Stopped /\ stop_score) => _game_status = "Score limit reached."

\* C7 amended: when stop_condition finds the best reward at or above a
\* configured reward_limit, the status is "Score limit reached." unless the
\* samples consumed exceed the budget, and "Sample limit reached." then.
C7_ScoreStatusWithinBudget ==
    (Stopped /\ stop_score) =>
        _game_status = IF _n_samples_done > pre.budget
                       THEN "Sample limit reached."
                       ELSE "Score limit reached."

C7_Witness ==
    /\ Stopped /\ stop_score
    /\ _i_simulation = 1
    /\ _game_status = "Score limit reached."

\* the ids that the first iteration of a cycle of n walkers gives its walkers
FirstLevelIds(n) == {0 * n + i : i \in 1..n}

\* a cycle of n = pre.n_walkers walkers is past its first iteration
PastFirstIteration == pre.op # "init" /\ _i_simulation >= 1

\* C8: within a planning cycle of n walkers, after the first iteration init_ids
\* has n entries, each an id fixed by the first iteration; and an entry changes
\* only in an iteration that clones, for a walker that clone_condition flagged,
\* to the origin id its companion had.
C8_OriginIds ==
    /\ [](PastFirstIteration =>
            /\ Len(init_ids) = pre.n_walkers
            /\ \A i \in DOMAIN init_ids : init_ids[i] \in FirstLevelIds(pre.n_walkers))
    /\ [][(pc = "swarm" /\ pc' = "swarm" /\ _i_simulation >= 1) =>
            \A i \in DOMAIN init_ids :
                init_ids'[i] # init_ids[i] =>
                    /\ _i_simulation > 1
                    /\ Get(_will_clone')[i]
                    /\ init_ids'[i] = init_ids[Get(_clone_idx')[i]]]_vars

C8_Witness ==
    /\ pc = "swarm"
    /\ _i_simulation = 3
    /\ init_ids = <<2, 2>>
    /\ Get(_will_clone) = <<TRUE, FALSE>>

\* C10: the result of estimate_distributions: the probability of action a is
\* the number of walkers of the cycle with origin action a over the population
\* of the cycle (pre.n_walkers, whatever update_parameters made of n_walkers),
\* the probabilities sum to 1, and the reward of a is the largest reward of a
\* walker with origin action a, or 0 without such a walker.
WalkersOf(a) == {i \in DOMAIN init_ids : init_actions[i] = a}

RECURSIVE SumTimes(_, _)
\* the sum of the fractions of s, times k
SumTimes(s, k) ==
    IF s = <<>> THEN 0
    ELSE (Head(s).num * (k \div Head(s).den)) + SumTimes(Tail(s), k)

RECURSIVE Product(_)
Product(s) == IF s = <<>> THEN 1 ELSE Head(s).den * Product(Tail(s))

SumsToOne(s) == SumTimes(s, Product(s)) = Product(s)

C10_Distribution ==
    Stopped =>
        LET r == Get(result)
        IN  /\ Len(r.probs) = n_actions
            /\ Len(r.rewards) = n_actions
            /\ \A a \in Actions :
                  /\ r.probs[a + 1] = Frac(Cardinality(WalkersOf(a)), pre.n_walkers)
                  /\ IF WalkersOf(a) = {}
                     THEN r.rewards[a + 1] = 0
                     ELSE /\ \E i \in WalkersOf(a) : r.rewards[a + 1] = rewards[i]
                          /\ \A i \in WalkersOf(a) : r.rewards[a + 1] >= rewards[i]
            /\ SumsToOne(r.probs)

C10_Witness ==
    /\ Stopped
    /\ n_walkers # pre.n_walkers
    /\ Get(result).probs = <<Frac(2, 3), Frac(1, 3)>>
    /\ Get(result).rewards = <<1, 0>>

-----------------------------------------------------------------------------
(* Properties of the action aggregation (under SpecVote).                  *)

Voted == result # None

\* the number of walkers whose origin action is a
Votes(a) == Cardinality(WalkersOf(a))

\* C9: weight_actions returns an action with the largest number of walkers
\* among the origin actions, and the lowest such action.
C9_Plurality ==
    Voted =>
        LET r == Get(result).action
        IN  /\ r \in Actions
            /\ \A a \in Actions : Votes(a) <= Votes(r)
            /\ \A a \in Actions : a < r => Votes(a) < Votes(r)

C9_Witness ==
    /\ Voted
    /\ n_actions = 2
    /\ init_actions = <<0, 0, 1, 1>>
    /\ Get(result).action = 0

-----------------------------------------------------------------------------
(* Properties of the adaptive toggle (under Spec).                         *)

\* C11: while the adaptive toggle is disabled, the population size, the
\* sampling budget and the balance stay what the constructor made them,
\* whatever run_agent and estimate_distributions do.
C11_FrozenWhenDisabled ==
    ~_update_parameters =>
        /\ n_walkers = max_walkers
        /\ _max_samples_step = InitialBudget(max_samples, max_walkers, time_horizon)
        /\ balance = One

-----------------------------------------------------------------------------
(* Properties of the episode (under SpecAgent).                            *)

\* run_agent is over: it returned or it raised
Halted == pc \in {"done", "raised"}

\* a failure of the tree ended run_agent
TreeFailed == error \in {"DuplicateNodeError", "DanglingParentError"}

\* the accumulated reward has reached the configured ceiling
ReachedCeiling == reward_limit # None /\ _agent_reward >= Get(reward_limit)

\* C12: run_agent is over (other than by a failure of the tree) only when the
\* environment has reported a terminal condition or the accumulated reward has
\* reached the configured ceiling.
C12_StopsExactly ==
    (Halted /\ ~TreeFailed) => (end \/ ReachedCeiling)

\* the (state, action, dt) of the append_leaf calls of the episode, in order
Appended == [k \in DOMAIN calls |-> <<calls[k].state, calls[k].action, calls[k].dt>>]

\* C13: when run_agent is over, recover_game on the node id of its last
\* append_leaf call returns the (state, action, dt) of all the append_leaf
\* calls of the episode (warm-up steps, start node, real steps), in order.
C13_RoundTrip ==
    (Halted /\ calls # <<>>) =>
        recover_game(Some(calls[Len(calls)].id)) = [error |-> "", branch |-> Appended]

\* C14: every append_leaf call of an episode uses a node id that no earlier
\* call used and, as parent, the node of the previous call or, for the first
\* call, the root-predecessor; so no call fails with DuplicateNodeError or
\* DanglingParentError.
C14_FreshIds ==
    /\ ~TreeFailed
    /\ \A k \in DOMAIN calls :
          /\ \A j \in 1..(k - 1) : calls[j].id # calls[k].id
          /\ calls[k].parent = IF k = 1 THEN RootPredecessor ELSE calls[k - 1].id

-----------------------------------------------------------------------------
(* Properties of the iterations of a planning cycle (under Spec).          *)

ClonePhase == <<"clone_condition", "step_walkers", "clone">>

\* C15 as stated: every iteration of a cycle after the first one computes
\* clone_condition before step_walkers and applies clone after it.
C15_CloneAfterFirst ==
    (pre.op # "init" /\ _i_simulation >= 2) => phases = ClonePhase

\* C15 amended: the first iteration steps the walkers and fixes the origin
\* ids, the second one only steps the walkers, and every iteration from the
\* third on computes clone_condition before step_walkers and applies clone
\* after it.
C15_CloneAfterSecond ==
    pre.op # "init" =>
        /\ _i_simulation = 0 => phases = <<>>
        /\ _i_simulation = 1 => phases = <<"step_walkers", "init_ids = walkers_id">>
        /\ _i_simulation = 2 => (phases = <<"step_walkers">> /\ _clone_idx = None)
        /\ _i_simulation >= 3 => (phases = ClonePhase /\ _clone_idx # None)

C15_Witness ==
    /\ pc = "swarm"
    /\ _i_simulation = 3
    /\ phases = ClonePhase
    /\ \E i \in Walkers : Get(_will_clone)[i]

\* C16: an iteration that clones gives every walker i the origin id that its
\* companion clone_idx[i] had before the clone if will_clone[i] holds, and
\* leaves it its own otherwise; the ids are read from the vector as it was
\* before the clone, whatever the order of the walkers, and a walker paired
\* with itself keeps its origin id.
C16_Snapshot ==
    [][(pc = "swarm" /\ pc' = "swarm" /\ _i_simulation > 1) =>
          \A i \in DOMAIN init_ids :
              /\ Get(_will_clone')[i] => init_ids'[i] = init_ids[Get(_clone_idx')[i]]
              /\ ~Get(_will_clone')[i] => init_ids'[i] = init_ids[i]
              /\ Get(_clone_idx')[i] = i => init_ids'[i] = init_ids[i]]_vars

\* two walkers have swapped their origin ids in one clone
C16_Witness ==
    /\ pc = "swarm"
    /\ _i_simulation = 3
    /\ init_ids = <<2, 1>>
    /\ Get(_will_clone) = <<TRUE, TRUE>>
    /\ Get(_clone_idx) = <<2, 1>>

\* C17: a planning cycle of budget B and population s (an iteration consumes
\* one sample for every live walker, at least 1 and at most s) never consumes
\* more than B + s samples, makes at most B + 1 iterations, and stops.
C17_Terminates ==
    /\ [](pre.op # "init" => _n_samples_done <= pre.budget + pre.n_walkers)
    /\ [](pre.op # "init" => _i_simulation <= pre.budget + 1)
    /\ (pc = "swarm") ~> (pc = "idle")

C17_Witness ==
    /\ Stopped
    /\ _n_samples_done = pre.budget + pre.n_walkers
    /\ _game_status = "Sample limit reached."

-----------------------------------------------------------------------------
(* Properties of the tree during an episode (under SpecAgent).             *)

\* C18: the tree is reset once in an episode, by the call of run_agent; from
\* then on no node is removed or changed; the planning cycle (reset and
\* init_swarm, the iterations of run_swarm) leaves the tree as it is, and the
\* rest of a loop turn of run_agent adds the node of the real step only.
C18_TreeGrows ==
    /\ [](pc # "idle" => resets = 1)
    /\ [][pc # "idle" =>
            \A x \in DOMAIN tree : x \in DOMAIN tree' /\ tree'[x] = tree[x]]_vars
    /\ [][(pc' = "swarm") => tree' = tree]_vars
    /\ [][(pc = "swarm" /\ pc' = "loop") =>
            DOMAIN tree' = DOMAIN tree \cup {i_step}]_vars

C18_Witness ==
    /\ pc = "done"
    /\ resets = 1
    /\ DOMAIN tree = {0, 1, 2}
    /\ _i_simulation >= 1

-----------------------------------------------------------------------------
(* More properties of the resource controller (under SpecParams).          *)

\* C19: a call of update_parameters changes the population size or the
\* sampling budget, never both; and with balance < 1 and the budget strictly
\* below its configured cap, the budget strictly increases, and stays within
\* the cap unless n_walkers * min_horizon is above the cap.
C19_OneAxis ==
    Updated =>
        /\ n_walkers # pre.n_walkers => _max_samples_step = pre.budget
        /\ _max_samples_step # pre.budget => n_walkers = pre.n_walkers
        /\ (BalanceBelowOne /\ max_samples # None /\ pre.budget < Get(max_samples)) =>
              /\ _max_samples_step > pre.budget
              /\ n_walkers * min_horizon <= Get(max_samples) =>
                    _max_samples_step <= Get(max_samples)

C19_Witness ==
    /\ Updated
    /\ BalanceBelowOne
    /\ max_samples = Some(5)
    /\ pre.budget = 3
    /\ _max_samples_step = 5
    /\ n_walkers = pre.n_walkers

-----------------------------------------------------------------------------
(* Properties of the planning cycles of an episode (under SpecAgent).      *)

\* run_swarm, called by run_agent, has left its loop: weight_actions is next
CycleOver == pc = "swarm" /\ caller = "run_agent" /\ stop_condition

====
